---- MODULE Spec2Model ----
(***************************************************************************)
(* The agent orchestration graph of src/agent.py: eight nodes that share   *)
(* one QueryState, each returning Command(goto, update).  Strings are      *)
(* sequences of tokens; a token is an indivisible run of characters, so    *)
(* "k in text" is token membership and str.strip() removes leading and     *)
(* trailing whitespace tokens.                                             *)
(***************************************************************************)
EXTENDS Integers, Sequences, FiniteSets, TLC

VARIABLES
    query,                  \* QueryState.query
    agent2_judgment,        \* QueryState.agent2_judgment (None, or a string)
    agent4_judgment,        \* QueryState.agent4_judgment (None, or a string)
    debug_info,             \* QueryState.debug_info of the running state
    QueryState_debug_info,  \* the list object of the class-level default `debug_info: list = []`
    aliased,                \* whether the running state's debug_info IS that class-level list
    active,                 \* the nodes the executor is about to invoke
    status,                 \* "running", "ended" (a node named END), "failed" (a collaborator raised)
    hist,                   \* history: one record per completed node invocation of the current run
    last_result,            \* history: what the collaborator returned to the last invoked node
    tape,                   \* history: the collaborator responses of the recorded run (SpecReplay)
    pending,                \* responses still to be replayed (SpecReplay)
    first                   \* outcome of the recorded run (SpecReplay), or None

vars == <<query, agent2_judgment, agent4_judgment, debug_info, QueryState_debug_info,
          aliased, active, status, hist, last_result, tape, pending, first>>

stateVars == <<query, agent2_judgment, agent4_judgment, debug_info, QueryState_debug_info>>
replayVars == <<tape, pending, first>>

----------------------------------------------------------------------------
(* Bounds *)

\* prompt2 (Refine) is invoked at most this many times in one run of the model
MaxRefines == 1

----------------------------------------------------------------------------
(* Strings *)

Whitespace == {" ", "\n"}

RECURSIVE LStrip(_)
LStrip(s) == IF s # <<>> /\ Head(s) \in Whitespace THEN LStrip(Tail(s)) ELSE s

RECURSIVE RStrip(_)
RStrip(s) ==
    IF s # <<>> /\ s[Len(s)] \in Whitespace THEN RStrip(SubSeq(s, 1, Len(s) - 1)) ELSE s

\* str.strip()
Strip(s) == RStrip(LStrip(s))

\* `k in text` for a keyword k
Contains(text, k) == \E i \in 1..Len(text) : text[i] = k

IsPrefix(s, t) == Len(s) <= Len(t) /\ SubSeq(t, 1, Len(s)) = s

\* Optional[...]: None, or one value
None == {}
Some(v) == {v}

Yes == <<"Yes">>
No == <<"No">>

\* the f-string rendering of an Optional[str]
Str(j) == IF j = None THEN <<"None">> ELSE CHOOSE v \in j : TRUE

END == "__end__"

\* The keywords of the tools, romanised: one token each.
KwLatest == "saishin-no"        \* agent1_tool1_check_date_in_query
KwSpecialTerm == "tokushu-yougo" \* agent2_tool1_check_dictionary
KwDetail == "kuwashiku"         \* agent4_tool1_check_unanswered
KwTechnical == "senmon-yougo"   \* agent4_tool2_check_technical_words

----------------------------------------------------------------------------
(* Inputs *)

\* the query of the demonstration run, and a plain one
InitialQueries == { <<KwSpecialTerm, KwDetail, KwLatest>>, <<"w">> }

\* final answers of the free-text collaborators (agent1, agent3, the two prompts)
TextResponses == { <<"w">>, <<" ", KwTechnical, "\n">> }

\* final answers of the judging collaborators (agent2, agent4)
VerdictResponses == { <<"Yes">>, <<" ", "Yes", "\n">>, <<"No">>, <<"Yes", ".">> }

----------------------------------------------------------------------------
(* QueryState and the node functions: (state, collaborator result) -> Command *)

state == [query |-> query, agent2_judgment |-> agent2_judgment,
          agent4_judgment |-> agent4_judgment, debug_info |-> debug_info]

Command(goto, update) == [goto |-> goto, update |-> update]

\* call_agent1 appending to the class attribute QueryState.debug_info instead of
\* the debug_info of the state it was handed
call_agent1_class_list(st, result) ==
    LET final_ans == result
        q == st.query \o <<"\n[Agent1 says]: ">> \o final_ans
        d == Append(QueryState_debug_info, <<"[Agent1] ">> \o final_ans)
    IN  Command("agent2", [query |-> q, debug_info |-> d])

call_agent1(st, result) ==
    LET final_ans == result
        q == st.query \o <<"\n[Agent1 says]: ">> \o final_ans
        d == Append(st.debug_info, <<"[Agent1] ">> \o final_ans)
    IN  Command("agent2", [query |-> q, debug_info |-> d])

\* call_agent2 starting a new trace list instead of appending to the old one
call_agent2_resets_trace(st, result) ==
    LET stripped == Strip(result)
        final_ans == IF stripped \notin {Yes, No} THEN No ELSE stripped
        d == << <<"[Agent2] judged = ">> \o final_ans >>
    IN  Command("router1", [agent2_judgment |-> Some(final_ans), debug_info |-> d])

call_agent2(st, result) ==
    LET stripped == Strip(result)
        final_ans == IF stripped \notin {Yes, No} THEN No ELSE stripped
        d == Append(st.debug_info, <<"[Agent2] judged = ">> \o final_ans)
    IN  Command("router1", [agent2_judgment |-> Some(final_ans), debug_info |-> d])

\* call_agent3 handing its summary straight to Evaluate
call_agent3_to_agent4(st, result) ==
    LET final_ans == result
        q == st.query \o <<"\n[Agent3 additional info]:\n">> \o final_ans
        d == Append(st.debug_info, <<"[Agent3] ">> \o final_ans)
    IN  Command("agent4", [query |-> q, debug_info |-> d])

call_agent3(st, result) ==
    LET final_ans == result
        q == st.query \o <<"\n[Agent3 additional info]:\n">> \o final_ans
        d == Append(st.debug_info, <<"[Agent3] ">> \o final_ans)
    IN  Command("prompt1", [query |-> q, debug_info |-> d])

\* call_agent4 without the fallback for answers other than "Yes"/"No"
call_agent4_no_fallback(st, result) ==
    LET final_ans == Strip(result)
        d == Append(st.debug_info, <<"[Agent4] judged = ">> \o final_ans)
    IN  Command("router2", [agent4_judgment |-> Some(final_ans), debug_info |-> d])

call_agent4(st, result) ==
    LET stripped == Strip(result)
        final_ans == IF stripped \notin {Yes, No} THEN No ELSE stripped
        d == Append(st.debug_info, <<"[Agent4] judged = ">> \o final_ans)
    IN  Command("router2", [agent4_judgment |-> Some(final_ans), debug_info |-> d])

prompt1(st, response) ==
    LET answer == Strip(response)
        q == st.query \o <<"\n[Prompt1's answer draft]:\n">> \o answer
        d == Append(st.debug_info, <<"[Prompt1] generated answer draft:\n">> \o answer)
    IN  Command("agent4", [query |-> q, debug_info |-> d])

\* prompt2 putting the refined answer in front of the buffer
prompt2_prepends(st, response) ==
    LET refined_answer == Strip(response)
        q == <<"\n[Prompt2 refined answer]:\n">> \o refined_answer \o st.query
        d == Append(st.debug_info, <<"[Prompt2] refined answer:\n">> \o refined_answer)
    IN  Command("agent2", [query |-> q, debug_info |-> d])

\* prompt2 replacing the buffer by the refined answer instead of appending it
prompt2_overwrites(st, response) ==
    LET refined_answer == Strip(response)
        q == <<"\n[Prompt2 refined answer]:\n">> \o refined_answer
        d == Append(st.debug_info, <<"[Prompt2] refined answer:\n">> \o refined_answer)
    IN  Command("agent2", [query |-> q, debug_info |-> d])

\* prompt2 handing the refined buffer to router1 without a new classification
prompt2_to_router1(st, response) ==
    LET refined_answer == Strip(response)
        q == st.query \o <<"\n[Prompt2 refined answer]:\n">> \o refined_answer
        d == Append(st.debug_info, <<"[Prompt2] refined answer:\n">> \o refined_answer)
    IN  Command("router1", [query |-> q, debug_info |-> d])

prompt2(st, response) ==
    LET refined_answer == Strip(response)
        q == st.query \o <<"\n[Prompt2 refined answer]:\n">> \o refined_answer
        d == Append(st.debug_info, <<"[Prompt2] refined answer:\n">> \o refined_answer)
    IN  Command("agent2", [query |-> q, debug_info |-> d])

\* router1 with its branches exchanged
router1_swapped(st) ==
    LET goto_node == IF st.agent2_judgment = Some(Yes) THEN "agent3" ELSE "prompt1"
        d == Append(st.debug_info,
                    <<"[Router1] Agent2 = ">> \o Str(st.agent2_judgment)
                        \o <<" -> ", goto_node>>)
    IN  Command(goto_node, [debug_info |-> d])

\* router1 reading the other judgment field
router1_reads_agent4(st) ==
    LET goto_node == IF st.agent4_judgment = Some(Yes) THEN "prompt1" ELSE "agent3"
        d == Append(st.debug_info,
                    <<"[Router1] Agent2 = ">> \o Str(st.agent2_judgment)
                        \o <<" -> ", goto_node>>)
    IN  Command(goto_node, [debug_info |-> d])

\* router1 consuming the judgment it read
router1_clears_judgment(st) ==
    LET goto_node == IF st.agent2_judgment = Some(Yes) THEN "prompt1" ELSE "agent3"
        d == Append(st.debug_info,
                    <<"[Router1] Agent2 = ">> \o Str(st.agent2_judgment)
                        \o <<" -> ", goto_node>>)
    IN  Command(goto_node, [debug_info |-> d, agent2_judgment |-> None])

router1(st) ==
    LET goto_node == IF st.agent2_judgment = Some(Yes) THEN "prompt1" ELSE "agent3"
        d == Append(st.debug_info,
                    <<"[Router1] Agent2 = ">> \o Str(st.agent2_judgment)
                        \o <<" -> ", goto_node>>)
    IN  Command(goto_node, [debug_info |-> d])

\* router2 giving up once the trace holds two passes
router2_bounded(st) ==
    IF st.agent4_judgment = Some(Yes) \/ Len(st.debug_info) >= 8
    THEN Command(END, [debug_info |-> Append(st.debug_info, <<"[Router2] Agent4=Yes => END">>)])
    ELSE Command("prompt2",
                 [debug_info |-> Append(st.debug_info, <<"[Router2] Agent4=No => prompt2">>)])

\* router2 reading the other judgment field
router2_reads_agent2(st) ==
    IF st.agent2_judgment = Some(Yes)
    THEN Command(END, [debug_info |-> Append(st.debug_info, <<"[Router2] Agent4=Yes => END">>)])
    ELSE Command("prompt2",
                 [debug_info |-> Append(st.debug_info, <<"[Router2] Agent4=No => prompt2">>)])

router2(st) ==
    IF st.agent4_judgment = Some(Yes)
    THEN Command(END, [debug_info |-> Append(st.debug_info, <<"[Router2] Agent4=Yes => END">>)])
    ELSE Command("prompt2",
                 [debug_info |-> Append(st.debug_info, <<"[Router2] Agent4=No => prompt2">>)])

----------------------------------------------------------------------------
(* Evaluate: the JSON call_agent4 hands to agent4, its two tools, its answer *)

\* json.dumps escapes line feeds and non-ASCII characters (ensure_ascii), token by token
JsonEscapeToken(t) ==
    CASE t = "\n" -> "\\n"
      [] t = KwLatest -> "\\u6700\\u65b0\\u306e"
      [] t = KwSpecialTerm -> "\\u7279\\u6b8a\\u7528\\u8a9e"
      [] t = KwDetail -> "\\u8a73\\u3057\\u304f"
      [] t = KwTechnical -> "\\u5c02\\u9580\\u7528\\u8a9e"
      [] t = "\n[Agent1 says]: " -> "\\n[Agent1 says]: "
      [] t = "\n[Agent3 additional info]:\n" -> "\\n[Agent3 additional info]:\\n"
      [] t = "\n[Prompt1's answer draft]:\n" -> "\\n[Prompt1's answer draft]:\\n"
      [] t = "\n[Prompt2 refined answer]:\n" -> "\\n[Prompt2 refined answer]:\\n"
      [] OTHER -> t

\* json.loads undoes the escapes
JsonUnescapeToken(t) ==
    CASE t = "\\n" -> "\n"
      [] t = "\\u6700\\u65b0\\u306e" -> KwLatest
      [] t = "\\u7279\\u6b8a\\u7528\\u8a9e" -> KwSpecialTerm
      [] t = "\\u8a73\\u3057\\u304f" -> KwDetail
      [] t = "\\u5c02\\u9580\\u7528\\u8a9e" -> KwTechnical
      [] t = "\\n[Agent1 says]: " -> "\n[Agent1 says]: "
      [] t = "\\n[Agent3 additional info]:\\n" -> "\n[Agent3 additional info]:\n"
      [] t = "\\n[Prompt1's answer draft]:\\n" -> "\n[Prompt1's answer draft]:\n"
      [] t = "\\n[Prompt2 refined answer]:\\n" -> "\n[Prompt2 refined answer]:\n"
      [] OTHER -> t

\* a JSON object of strings, as the record of its escaped strings
json_dumps(d) == [k \in DOMAIN d |-> [i \in 1..Len(d[k]) |-> JsonEscapeToken(d[k][i])]]
json_loads(j) == [k \in DOMAIN j |-> [i \in 1..Len(j[k]) |-> JsonUnescapeToken(j[k][i])]]

agent4_tool1_check_unanswered(input_json) ==
    LET data == json_loads(input_json)
        q == data.query
        answer_candidate == data.answer_candidate
    IN  IF Contains(q, KwDetail) /\ ~Contains(answer_candidate, KwDetail) THEN No ELSE Yes

agent4_tool2_check_technical_words(input_json) ==
    LET data == json_loads(input_json)
    IN  IF Contains(data.answer_candidate, KwTechnical) THEN No ELSE Yes

\* what follows the last draft marker of the buffer
latest_draft(q) ==
    LET marks == {i \in 1..Len(q) : q[i] \in {"\n[Prompt1's answer draft]:\n",
                                              "\n[Prompt2 refined answer]:\n"}}
    IN  IF marks = {} THEN <<>>
        ELSE SubSeq(q, (CHOOSE m \in marks : \A k \in marks : k <= m) + 1, Len(q))

\* call_agent4 passing only the latest draft as the answer candidate
agent4_data_json_latest_draft(st) ==
    json_dumps([query |-> st.query, answer_candidate |-> latest_draft(st.query)])

\* data_json of call_agent4
agent4_data_json(st) == json_dumps([query |-> st.query, answer_candidate |-> st.query])

\* agent4 answering "Yes" when either check is good
agent4_graph_either(data_json) ==
    LET v == IF agent4_tool1_check_unanswered(data_json) = Yes
                \/ agent4_tool2_check_technical_words(data_json) = Yes
             THEN Yes ELSE No
    IN  {v, <<" ">> \o v \o <<"\n">>}

\* The final answers of agent4 when it does what its description tells it: call
\* both tools with the JSON it was given, answer "Yes" if both are "Yes" and "No"
\* otherwise; the answer may come padded with whitespace.
agent4_graph(data_json) ==
    LET v == IF agent4_tool1_check_unanswered(data_json) = Yes
                /\ agent4_tool2_check_technical_words(data_json) = Yes
             THEN Yes ELSE No
    IN  {v, <<" ">> \o v \o <<"\n">>}

----------------------------------------------------------------------------
(* The graph and its executor *)

Nodes == {"agent1", "agent2", "router1", "agent3", "prompt1", "agent4", "router2", "prompt2"}

START == "__start__"

\* builder.add_edge(a, b)
Edges == { <<START, "agent1">>, <<"agent1", "agent2">>, <<"agent2", "router1">>,
           <<"router1", "prompt1">>, <<"router1", "agent3">>, <<"agent3", "prompt1">>,
           <<"prompt1", "agent4">>, <<"agent4", "router2">>, <<"router2", END>>,
           <<"router2", "prompt2">>, <<"prompt2", "agent2">> }

\* the Command[Literal[...]] return annotation of each node function
ReturnType(n) ==
    CASE n = "agent1" -> {"agent2"}
      [] n = "agent2" -> {"router1"}
      [] n = "agent3" -> {"prompt1"}
      [] n = "agent4" -> {"router2"}
      [] n = "prompt1" -> {"agent4"}
      [] n = "prompt2" -> {"agent2"}
      [] n = "router1" -> {"prompt1", "agent3"}
      [] n = "router2" -> {"prompt2", END}

\* the nodes whose function calls an external collaborator
CollaboratorNodes == Nodes \ {"router1", "router2"}

\* an executor that also follows every edge registered for n
Successors_with_edges(n, cmd) == {cmd.goto} \cup {e[2] : e \in {d \in Edges : d[1] = n}}

\* what runs after node n returned cmd: the successor its Command names
\* ("router1 -> [Yes->prompt1, No->agent3]", "router2 -> [Yes->END, No->prompt2]")
Successors(n, cmd) == {cmd.goto}

\* the update of a Command merged into the running state
Merge(st, update) == [k \in DOMAIN st |-> IF k \in DOMAIN update THEN update[k] ELSE st[k]]

Count(h, n) == Cardinality({i \in 1..Len(h) : h[i].node = n})

\* One executor step: node n, given collaborator result r, has returned cmd.
Execute(n, r, cmd) ==
    LET new == Merge(state, cmd.update)
        next == Successors(n, cmd)
    IN  /\ query' = new.query
        /\ agent2_judgment' = new.agent2_judgment
        /\ agent4_judgment' = new.agent4_judgment
        /\ debug_info' = new.debug_info
        \* list.append mutates the list object in place
        /\ QueryState_debug_info' = IF aliased THEN new.debug_info ELSE QueryState_debug_info
        /\ active' = (active \ {n}) \cup (next \ {END})
        /\ status' = IF END \in next THEN "ended" ELSE status
        /\ hist' = Append(hist, [node |-> n,
                                 a2 |-> agent2_judgment,
                                 a4 |-> agent4_judgment,
                                 goto |-> cmd.goto,
                                 verdict |-> IF n = "agent2" THEN new.agent2_judgment
                                             ELSE IF n = "agent4" THEN new.agent4_judgment
                                             ELSE None,
                                 before |-> query,
                                 after |-> new.query])
        /\ last_result' = r
        /\ UNCHANGED aliased

Ready(n) == status = "running" /\ n \in active

Agent1(r) == Ready("agent1") /\ Execute("agent1", Some(r), call_agent1(state, r))
Agent2(r) == Ready("agent2") /\ Execute("agent2", Some(r), call_agent2(state, r))
Router1 == Ready("router1") /\ Execute("router1", None, router1(state))
Agent3(r) == Ready("agent3") /\ Execute("agent3", Some(r), call_agent3(state, r))
Prompt1(r) == Ready("prompt1") /\ Execute("prompt1", Some(r), prompt1(state, r))
Agent4(r) == Ready("agent4") /\ Execute("agent4", Some(r), call_agent4(state, r))
Router2 == Ready("router2") /\ Execute("router2", None, router2(state))
Prompt2(r) ==
    /\ Ready("prompt2")
    /\ Count(hist, "prompt2") < MaxRefines
    /\ Execute("prompt2", Some(r), prompt2(state, r))

\* a variant that records a failed verdict call as the judgment "No"
Raise_as_No(n) ==
    /\ Ready(n)
    /\ n \in CollaboratorNodes
    /\ status' = "failed"
    /\ active' = {}
    /\ agent2_judgment' = IF n = "agent2" THEN Some(No) ELSE agent2_judgment
    /\ agent4_judgment' = IF n = "agent4" THEN Some(No) ELSE agent4_judgment
    /\ UNCHANGED <<query, debug_info, QueryState_debug_info, aliased, hist, last_result>>

\* A collaborator call raises: no node catches it, the exception leaves graph.run
\* before the node has written anything.
Raise(n) ==
    /\ Ready(n)
    /\ n \in CollaboratorNodes
    /\ status' = "failed"
    /\ active' = {}
    /\ UNCHANGED <<stateVars, aliased, hist, last_result>>

\* QueryState(query=q): debug_info is the class-level default, either the one
\* list object of the class body or a copy of it, as the state base class has it.
Construct(q) ==
    /\ query = q
    /\ agent2_judgment = None
    /\ agent4_judgment = None
    /\ QueryState_debug_info = <<>>
    /\ aliased \in BOOLEAN
    /\ debug_info = QueryState_debug_info

Init ==
    /\ \E q \in InitialQueries : Construct(q)
    /\ active = {e[2] : e \in {d \in Edges : d[1] = START}}
    /\ status = "running"
    /\ hist = <<>>
    /\ last_result = None
    /\ tape = <<>>
    /\ pending = <<>>
    /\ first = None

Next ==
    \/ \E r \in TextResponses : Agent1(r) /\ UNCHANGED replayVars
    \/ \E r \in VerdictResponses : Agent2(r) /\ UNCHANGED replayVars
    \/ Router1 /\ UNCHANGED replayVars
    \/ \E r \in TextResponses : Agent3(r) /\ UNCHANGED replayVars
    \/ \E r \in TextResponses : Prompt1(r) /\ UNCHANGED replayVars
    \/ \E r \in VerdictResponses : Agent4(r) /\ UNCHANGED replayVars
    \/ Router2 /\ UNCHANGED replayVars
    \/ \E r \in TextResponses : Prompt2(r) /\ UNCHANGED replayVars
    \/ \E n \in Nodes : Raise(n) /\ UNCHANGED replayVars

Spec == Init /\ [][Next]_vars

----------------------------------------------------------------------------
(* A run, then a second run from the same initial state fed the same responses *)

Path(h) == [i \in 1..Len(h) |-> h[i].node]

\* the responses the judging collaborators give in the recorded run
ReplayVerdicts == { <<" ", "Yes", "\n">>, <<"Yes", ".">> }

\* The first run records the response r it is given; the second is given the
\* recorded responses in their order.
Feed(r) ==
    IF first = None
    THEN tape' = Append(tape, r) /\ UNCHANGED <<pending, first>>
    ELSE /\ pending # <<>>
         /\ r = Head(pending)
         /\ pending' = Tail(pending)
         /\ UNCHANGED <<tape, first>>

\* graph.run(QueryState(query=q0, debug_info=[])) once the first run has ended:
\* a state equal to the first run's initial state, with a list of its own.
StartReplay ==
    /\ status = "ended"
    /\ first = None
    /\ first' = Some([hist |-> hist, query |-> query, debug_info |-> debug_info])
    /\ pending' = tape
    /\ query' = hist[1].before
    /\ agent2_judgment' = None
    /\ agent4_judgment' = None
    /\ debug_info' = <<>>
    /\ aliased' = FALSE
    /\ active' = {e[2] : e \in {d \in Edges : d[1] = START}}
    /\ status' = "running"
    /\ hist' = <<>>
    /\ last_result' = None
    /\ UNCHANGED <<QueryState_debug_info, tape>>

NextReplay ==
    \/ \E r \in TextResponses : Agent1(r) /\ Feed(r)
    \/ \E r \in ReplayVerdicts : Agent2(r) /\ Feed(r)
    \/ Router1 /\ UNCHANGED replayVars
    \/ \E r \in TextResponses : Agent3(r) /\ Feed(r)
    \/ \E r \in TextResponses : Prompt1(r) /\ Feed(r)
    \/ \E r \in ReplayVerdicts : Agent4(r) /\ Feed(r)
    \/ Router2 /\ UNCHANGED replayVars
    \/ \E r \in TextResponses : Prompt2(r) /\ Feed(r)
    \/ StartReplay

SpecReplay == Init /\ [][NextReplay]_vars

----------------------------------------------------------------------------
(* A run, then a second run from a freshly constructed QueryState *)

\* graph.run(QueryState(query=q)) once the first run has ended: as in Construct,
\* debug_info is the class-level default (the list object itself, or a copy of
\* what the class body created, which nothing has changed).
NewRun ==
    /\ status = "ended"
    /\ first = None
    /\ first' = Some([hist |-> hist, query |-> query, debug_info |-> debug_info])
    /\ query' = hist[1].before
    /\ agent2_judgment' = None
    /\ agent4_judgment' = None
    /\ debug_info' = IF aliased THEN QueryState_debug_info ELSE <<>>
    /\ active' = {e[2] : e \in {d \in Edges : d[1] = START}}
    /\ status' = "running"
    /\ hist' = <<>>
    /\ last_result' = None
    /\ UNCHANGED <<QueryState_debug_info, aliased, tape, pending>>

NextTwoRuns ==
    \/ \E r \in TextResponses : Agent1(r) /\ UNCHANGED replayVars
    \/ \E r \in ReplayVerdicts : Agent2(r) /\ UNCHANGED replayVars
    \/ Router1 /\ UNCHANGED replayVars
    \/ \E r \in TextResponses : Agent3(r) /\ UNCHANGED replayVars
    \/ \E r \in TextResponses : Prompt1(r) /\ UNCHANGED replayVars
    \/ \E r \in ReplayVerdicts : Agent4(r) /\ UNCHANGED replayVars
    \/ Router2 /\ UNCHANGED replayVars
    \/ \E r \in TextResponses : Prompt2(r) /\ UNCHANGED replayVars
    \/ NewRun

SpecTwoRuns == Init /\ [][NextTwoRuns]_vars

----------------------------------------------------------------------------
(* A run in which agent4 follows its description *)

NextEvaluate ==
    \/ \E r \in TextResponses : Agent1(r) /\ UNCHANGED replayVars
    \/ \E r \in VerdictResponses : Agent2(r) /\ UNCHANGED replayVars
    \/ Router1 /\ UNCHANGED replayVars
    \/ \E r \in TextResponses : Agent3(r) /\ UNCHANGED replayVars
    \/ \E r \in TextResponses : Prompt1(r) /\ UNCHANGED replayVars
    \/ \E r \in agent4_graph(agent4_data_json(state)) : Agent4(r) /\ UNCHANGED replayVars
    \/ Router2 /\ UNCHANGED replayVars
    \/ \E r \in TextResponses : Prompt2(r) /\ UNCHANGED replayVars

SpecEvaluate == Init /\ [][NextEvaluate]_vars

----------------------------------------------------------------------------
(* Properties *)

LastNode == IF hist = <<>> THEN START ELSE hist[Len(hist)].node

Normalized(r) == IF Strip(r) = Yes THEN Some(Yes) ELSE Some(No)

\* C1: both judgments are always unset, "Yes" or "No"; and the judgment a
\* call_agent2 / call_agent4 invocation has just stored is "Yes" exactly when the
\* stripped collaborator answer is "Yes", and "No" for every other answer.
C1_JudgmentsYesOrNo ==
    /\ agent2_judgment \in {None, Some(Yes), Some(No)}
    /\ agent4_judgment \in {None, Some(Yes), Some(No)}
    /\ LastNode = "agent2" => \A r \in last_result : agent2_judgment = Normalized(r)
    /\ LastNode = "agent4" => \A r \in last_result : agent4_judgment = Normalized(r)

\* a padded "Yes" was stored as "Yes" by agent2, then a malformed answer as "No" by agent4
C1_Witness ==
    /\ LastNode = "agent4"
    /\ last_result = Some(<<"Yes", ".">>)
    /\ agent4_judgment = Some(No)
    /\ agent2_judgment = Some(Yes)
    /\ \E i \in 1..Len(hist) : hist[i].node = "agent2" /\ hist[i].a2 = None

\* C2: every router1 invocation names prompt1 when agent2_judgment is "Yes" and
\* agent3 when it is "No", whatever the rest of the state, and never anything else.
C2_Router1ByClassification ==
    \A i \in 1..Len(hist) :
        hist[i].node = "router1" =>
            /\ hist[i].a2 = Some(Yes) => hist[i].goto = "prompt1"
            /\ hist[i].a2 = Some(No) => hist[i].goto = "agent3"
            /\ hist[i].goto \in {"prompt1", "agent3"}

\* one run in which router1 took each branch, once with agent4_judgment already set
C2_Witness ==
    \E i, j \in 1..Len(hist) :
        /\ hist[i].node = "router1" /\ hist[i].a2 = Some(Yes) /\ hist[i].a4 = None
        /\ hist[j].node = "router1" /\ hist[j].a2 = Some(No) /\ hist[j].a4 = Some(No)

\* C3: every router2 invocation names END when agent4_judgment is "Yes" and
\* prompt2 when it is "No", whatever the rest of the state, and never anything else.
C3_Router2ByEvaluation ==
    \A i \in 1..Len(hist) :
        hist[i].node = "router2" =>
            /\ hist[i].a4 = Some(Yes) => hist[i].goto = END
            /\ hist[i].a4 = Some(No) => hist[i].goto = "prompt2"
            /\ hist[i].goto \in {END, "prompt2"}

\* one run in which router2 took each branch, with the two judgments disagreeing
C3_Witness ==
    \E i, j \in 1..Len(hist) :
        /\ hist[i].node = "router2" /\ hist[i].a4 = Some(No) /\ hist[i].a2 = Some(Yes)
        /\ hist[j].node = "router2" /\ hist[j].a4 = Some(Yes) /\ hist[j].a2 = Some(No)

\* C4: in every step of a run the query before the step is a prefix of the query
\* after it.
C4_QueryAppendOnly == [][IsPrefix(query, query')]_vars

\* a finished run that invoked all eight nodes and grew the query
C4_Witness ==
    /\ status = "ended"
    /\ \A n \in Nodes : Count(hist, n) >= 1
    /\ Len(query) > Len(hist[1].before)

Rejected == {i \in 1..Len(hist) : hist[i].node = "agent4" /\ hist[i].verdict = Some(No)}
Accepted == {i \in 1..Len(hist) : hist[i].node = "agent4" /\ hist[i].verdict = Some(Yes)}

\* what invocation i appended to the query
Annotation(i) == SubSeq(hist[i].after, Len(hist[i].before) + 1, Len(hist[i].after))

\* invocation i's annotation is in the query, where it was appended
Kept(i) == SubSeq(query, Len(hist[i].before) + 1, Len(hist[i].after)) = Annotation(i)

\* C6 (as claimed): a run in which every Evaluate rejects is stopped with a fatal
\* "max iterations exceeded" error; here, at the latest when Evaluate has rejected
\* once more than the model lets Refine run.
C6_RejectingRunStopsWithError ==
    (Accepted = {} /\ Cardinality(Rejected) > MaxRefines) => status = "max_iterations_exceeded"

\* C7: while no Evaluate has accepted, the run has not ended and is not stopped by
\* the executor: every router2 has named prompt2, every prompt2 was followed by
\* agent2, and a node is waiting to be invoked, however many passes were made.
C7_RejectingRunNeverEnds ==
    Accepted = {} =>
        /\ status # "ended"
        /\ \A i \in 1..Len(hist) : hist[i].node = "router2" => hist[i].goto = "prompt2"
        /\ \A i \in 1..(Len(hist) - 1) : hist[i].node = "prompt2" => hist[i + 1].node = "agent2"
        /\ status = "running" => active # {}
        /\ (status = "running" /\ LastNode = "router2") => active = {"prompt2"}
        /\ (status = "running" /\ LastNode = "prompt2") => active = {"agent2"}

\* every Evaluate so far rejected, Refine ran as often as the model allows, and
\* router2 has named prompt2 once more
C7_Witness ==
    /\ Accepted = {}
    /\ Cardinality(Rejected) = MaxRefines + 1
    /\ Count(hist, "prompt2") = MaxRefines
    /\ LastNode = "router2"
    /\ status = "running"
    /\ active = {"prompt2"}

\* C8: when a run has ended, prompt2 ran once per rejecting Evaluate; if agent2
\* said "Yes" and Evaluate said "No" then "Yes", prompt2 ran exactly once, and the
\* final query holds the first draft, the refined answer and the second draft, each
\* as appended, in that order.
C8_OneRefinePerRejection ==
    status = "ended" =>
        /\ Count(hist, "prompt2") = Cardinality(Rejected)
        /\ (/\ Cardinality(Rejected) = 1
            /\ \A i \in 1..Len(hist) : hist[i].node = "agent2" => hist[i].verdict = Some(Yes))
           => /\ Path(hist) = <<"agent1", "agent2", "router1", "prompt1", "agent4", "router2",
                                "prompt2", "agent2", "router1", "prompt1", "agent4", "router2">>
              /\ Kept(4) /\ Kept(7) /\ Kept(10)
              /\ Annotation(4)[1] = "\n[Prompt1's answer draft]:\n"
              /\ Annotation(7)[1] = "\n[Prompt2 refined answer]:\n"
              /\ Annotation(10)[1] = "\n[Prompt1's answer draft]:\n"
              /\ Len(hist[4].after) <= Len(hist[7].before)
              /\ Len(hist[7].after) <= Len(hist[10].before)
              /\ Len(hist[10].after) = Len(query)

\* the scenario: classified "Yes", rejected on round 1, accepted on round 2, ended
C8_Witness ==
    /\ status = "ended"
    /\ Cardinality(Rejected) = 1
    /\ \A i \in 1..Len(hist) : hist[i].node = "agent2" => hist[i].verdict = Some(Yes)
    /\ Count(hist, "prompt2") = 1
    /\ Len(Annotation(4)) > 1 /\ Len(Annotation(7)) > 1

\* C9: after a router1 that read "No" comes agent3 and then prompt1; after a
\* router1 that read "Yes" comes prompt1; agent3 runs nowhere else; and when the
\* run has ended every summary agent3 appended is in the query where it was put.
C9_GatherOncePerNo ==
    /\ \A i \in 1..Len(hist) :
            hist[i].node = "router1" =>
                /\ hist[i].a2 = Some(No) =>
                        /\ i + 1 <= Len(hist) => hist[i + 1].node = "agent3"
                        /\ i + 2 <= Len(hist) => hist[i + 2].node = "prompt1"
                /\ hist[i].a2 = Some(Yes) =>
                        /\ i + 1 <= Len(hist) => hist[i + 1].node = "prompt1"
    /\ \A i \in 1..Len(hist) :
            hist[i].node = "agent3" =>
                i > 1 /\ hist[i - 1].node = "router1" /\ hist[i - 1].a2 = Some(No)
    /\ status = "ended" =>
            \A i \in 1..Len(hist) :
                hist[i].node = "agent3" =>
                    /\ Kept(i)
                    /\ Annotation(i)[1] = "\n[Agent3 additional info]:\n"
                    /\ \E r \in TextResponses : Annotation(i) = <<Annotation(i)[1]>> \o r

\* an ended run with a "No" pass that gathered, then refined, then a "Yes" pass
C9_Witness ==
    /\ status = "ended"
    /\ Count(hist, "agent3") = 1
    /\ Count(hist, "router1") = 2
    /\ \E i \in 1..Len(hist) : hist[i].node = "agent3" /\ Len(query) > Len(hist[i].after)
    /\ \E i \in 1..Len(hist) : hist[i].node = "router1" /\ hist[i].a2 = Some(Yes)

C11_DeclaredEdgesOnly ==
    \A i \in 1..Len(hist) :
        /\ <<hist[i].node, hist[i].goto>> \in Edges
        /\ hist[i].goto \in ReturnType(hist[i].node)

\* an ended run that has taken every edge of the graph
C11_Witness ==
    /\ status = "ended"
    /\ {<<hist[i].node, hist[i].goto>> : i \in 1..Len(hist)} = {e \in Edges : e[1] # START}

\* how the trace entry of each node begins
TraceTag(n) ==
    CASE n = "agent1" -> {"[Agent1] "}
      [] n = "agent2" -> {"[Agent2] judged = "}
      [] n = "router1" -> {"[Router1] Agent2 = "}
      [] n = "agent3" -> {"[Agent3] "}
      [] n = "prompt1" -> {"[Prompt1] generated answer draft:\n"}
      [] n = "agent4" -> {"[Agent4] judged = "}
      [] n = "router2" -> {"[Router2] Agent4=Yes => END", "[Router2] Agent4=No => prompt2"}
      [] n = "prompt2" -> {"[Prompt2] refined answer:\n"}

\* what a node's choice of successor may depend on
Decides(h) ==
    IF h.node = "router1" THEN h.a2 ELSE IF h.node = "router2" THEN h.a4 ELSE None

C12_TraceMatchesHistory ==
    /\ Len(debug_info) = Len(hist)
    /\ \A i \in 1..Len(hist) : debug_info[i][1] \in TraceTag(hist[i].node)
    /\ \A i, j \in 1..Len(hist) :
            (hist[i].node = hist[j].node /\ Decides(hist[i]) = Decides(hist[j]))
                => hist[i].goto = hist[j].goto

\* C12: in a run started with an empty trace, the trace holds one entry per node
\* invocation, in invocation order; every step keeps the old trace as a prefix of
\* the new one; and two invocations of a node that read the same judgment named
\* the same successor, though the trace differed.
C12_TraceAppendOnly ==
    /\ []C12_TraceMatchesHistory
    /\ [][IsPrefix(debug_info, debug_info') /\ Len(debug_info') <= Len(debug_info) + 1]_vars

\* an ended run of two passes: twelve or more invocations, as many entries
C12_Witness ==
    /\ status = "ended"
    /\ Count(hist, "prompt2") = 1
    /\ Len(debug_info) >= 12
    /\ Len(debug_info) = Len(hist)

\* C13 (as claimed): the second run begins with an empty trace and unset
\* judgments, and its trace holds only what its own invocations appended.
C13_SecondRunStartsFresh ==
    first # None =>
        /\ hist = <<>> => (debug_info = <<>> /\ agent2_judgment = None /\ agent4_judgment = None)
        /\ Len(debug_info) = Len(hist)
        /\ \A f \in first : f.debug_info # <<>> => ~IsPrefix(f.debug_info, debug_info)

\* the JSON call_agent4 built at invocation i of agent4
DataJsonAt(i) == agent4_data_json([query |-> hist[i].before])

C17_UnansweredCheckAlwaysYes ==
    /\ \A i \in 1..Len(hist) :
            hist[i].node = "agent4" =>
                /\ json_loads(DataJsonAt(i)).query = hist[i].before
                /\ json_loads(DataJsonAt(i)).answer_candidate = hist[i].before
                /\ agent4_tool1_check_unanswered(DataJsonAt(i)) = Yes
    /\ "agent4" \in active => agent4_tool1_check_unanswered(agent4_data_json(state)) = Yes

\* Evaluate ran on a buffer that asks for detail while the draft just appended
\* does not mention it
C17_Witness ==
    /\ LastNode = "agent4"
    /\ Contains(query, KwDetail)
    /\ ~Contains(latest_draft(query), KwDetail)
    /\ latest_draft(query) # <<>>
    /\ agent4_judgment = Some(Yes)

\* C15: a collaborator failure is fatal and is no judgment: the step that fails
\* leaves query, both judgments, the trace and the invocation history as they
\* were, nothing runs after it, and the run does not reach END.
C15_FailureIsFatalNotNo ==
    /\ [](status = "failed" => active = {})
    /\ [][ /\ status = "failed" => status' = "failed"
           /\ (status # "failed" /\ status' = "failed") =>
                /\ status = "running"
                /\ UNCHANGED <<query, agent2_judgment, agent4_judgment,
                               debug_info, QueryState_debug_info, hist>> ]_vars

\* the Evaluate call failed on the second pass, after a rejection: the stored
\* evaluation verdict is still the earlier one's and the trace has no entry of it
C15_Witness ==
    /\ status = "failed"
    /\ LastNode = "prompt1"
    /\ Count(hist, "agent4") = 1
    /\ agent4_judgment = Some(No)
    /\ agent2_judgment = Some(Yes)
    /\ Len(debug_info) = Len(hist)

\* C16: an invocation of router1 or router2 appends one entry to the trace and
\* leaves query, agent2_judgment and agent4_judgment unchanged.
C16_RoutersOnlyTrace ==
    [][ (/\ Len(hist') = Len(hist) + 1
         /\ hist'[Len(hist')].node \in {"router1", "router2"}) =>
            /\ UNCHANGED <<query, agent2_judgment, agent4_judgment>>
            /\ Len(debug_info') = Len(debug_info) + 1
            /\ IsPrefix(debug_info, debug_info') ]_vars

\* both routers have run twice, on a state with both judgments set and a query
\* buffer that has grown
C16_Witness ==
    /\ LastNode = "router2"
    /\ Count(hist, "router1") = 2
    /\ Count(hist, "router2") = 2
    /\ hist[Len(hist)].a2 = agent2_judgment
    /\ hist[Len(hist)].a4 = agent4_judgment
    /\ agent2_judgment # None
    /\ agent4_judgment # None
    /\ hist[Len(hist)].before = query
    /\ Len(debug_info) = Len(hist)

\* C18: a run is at END only by router2 right after an Evaluate that stored
\* "Yes": then agent4_judgment is "Yes", agent2_judgment is set, a Draft has been
\* invoked, and the invocation that named END is the last one of the run.
C18_EndOnlyAfterAcceptedEvaluate ==
    status = "ended" =>
        /\ agent4_judgment = Some(Yes)
        /\ agent2_judgment # None
        /\ Count(hist, "prompt1") >= 1
        /\ Len(hist) >= 2
        /\ LastNode = "router2"
        /\ hist[Len(hist)].goto = END
        /\ hist[Len(hist) - 1].node = "agent4"
        /\ hist[Len(hist) - 1].verdict = Some(Yes)
        /\ \A i \in 1..(Len(hist) - 1) : hist[i].goto # END
        /\ active = {}

\* the run ended on its second pass, the classification of that pass being "No"
C18_Witness ==
    /\ status = "ended"
    /\ Count(hist, "router2") = 2
    /\ agent2_judgment = Some(No)
    /\ Count(hist, "prompt1") = 2

\* C19: router1 is invoked right after call_agent2 and reads the judgment that
\* invocation stored, router2 right after call_agent4 and reads the judgment that
\* invocation stored; the judgment read is never unset, on any pass.
C19_RoutersReadFreshVerdict ==
    \A i \in 1..Len(hist) :
        /\ hist[i].node = "router1" =>
                /\ i > 1
                /\ hist[i - 1].node = "agent2"
                /\ hist[i - 1].verdict # None
                /\ hist[i].a2 = hist[i - 1].verdict
        /\ hist[i].node = "router2" =>
                /\ i > 1
                /\ hist[i - 1].node = "agent4"
                /\ hist[i - 1].verdict # None
                /\ hist[i].a4 = hist[i - 1].verdict

\* after a Refine, router1 read a classification different from the one it read
\* on the first pass, and router2 an evaluation different from the first one
C19_Witness ==
    /\ LastNode = "router2"
    /\ Count(hist, "prompt2") = 1
    /\ \E i, j \in 1..Len(hist) :
            /\ i < j
            /\ hist[i].node = "router1"
            /\ hist[j].node = "router1"
            /\ hist[i].a2 = Some(Yes)
            /\ hist[j].a2 = Some(No)
    /\ hist[Len(hist)].a4 = Some(Yes)

\* C20: with agent4 answering the AND of its two tools on the JSON of
\* call_agent4: once the buffer holds the technical-words keyword at an Evaluate
\* step, agent4_tool2_check_technical_words returns "No" at that step and at
\* every later one, every evaluation verdict from then on is "No", and the run
\* is never at END.
C20_TechnicalWordsNeverAccepted ==
    \A i \in 1..Len(hist) :
        (hist[i].node = "agent4" /\ Contains(hist[i].before, KwTechnical)) =>
            /\ status # "ended"
            /\ \A j \in i..Len(hist) :
                    hist[j].node = "agent4" =>
                        /\ agent4_tool2_check_technical_words(DataJsonAt(j)) = No
                        /\ hist[j].verdict = Some(No)
            /\ "agent4" \in active =>
                    agent4_tool2_check_technical_words(agent4_data_json(state)) = No

\* the first draft used the keyword and was rejected; the refined answer does
\* not use it, and the second Evaluate rejected the buffer again
C20_Witness ==
    /\ LastNode = "agent4"
    /\ Cardinality(Rejected) = 2
    /\ \E i \in 1..Len(hist) :
            /\ hist[i].node = "prompt2"
            /\ hist[i].after = hist[i].before \o <<"\n[Prompt2 refined answer]:\n", "w">>
    /\ Contains(hist[Len(hist)].before, KwTechnical)
    /\ agent4_judgment = Some(No)

====
